---- MODULE Spec2Model ----
(***************************************************************************)
(* Tessera (obsidian-tessera): the chat relay of TesseraPlugin and         *)
(* ConversationView, and the profile store kept by ContextManager.         *)
(*                                                                         *)
(* Text is a sequence of tokens (a token is an atomic chunk of characters, *)
(* "\n" is the line break), so that concatenation is \o and the empty      *)
(* string is << >>.  A path is text as well.                               *)
(***************************************************************************)
EXTENDS Integers, Sequences, FiniteSets, TLC

VARIABLES
    cm,                   \* which ContextManager source is loaded: "root" | "core"
    vault,                \* path -> [exists, indexed, data]: the Obsidian vault
    dir,                  \* the folder 'Context' exists (core ContextManager only)
    activeContextFiles,   \* ContextManager.activeContextFiles, in insertion order
    last,                 \* record of the last ContextManager call (bookkeeping)
    ops,                  \* number of ContextManager calls made directly
    writes,               \* appendToUserContext calls between their read and their write
    anthropic,            \* TesseraPlugin.anthropic is set
    apiKeys,              \* settings.apiKey, the settings tab's tempApiKey, trial requests
    conversationHistory,  \* TesseraPlugin.conversationHistory
    messages,             \* ConversationView.messages
    chatName,             \* ConversationView.chatName
    lastFailedMessage,    \* ConversationView.lastFailedMessage
    tasks,                \* the calls of sendInitialMessage / sendMessage in flight
    opened,               \* ConversationView.onOpen has run
    nSubmitted,           \* number of submissions made so far
    nTools,               \* number of tool invocations the model has made
    sess,                 \* bookkeeping about the session since it began
    done                  \* record of the last exchange that settled (bookkeeping)

storeVars == <<cm, vault, dir, activeContextFiles, last, ops, writes>>
chatVars  == <<anthropic, apiKeys, conversationHistory, messages, chatName,
               lastFailedMessage, tasks, opened, nSubmitted, nTools, sess, done>>
vars      == <<cm, vault, dir, activeContextFiles, last, ops, writes,
               anthropic, apiKeys, conversationHistory, messages, chatName,
               lastFailedMessage, tasks, opened, nSubmitted, nTools, sess, done>>

(***************************************************************************)
(* Bounds                                                                  *)
(***************************************************************************)
MaxOps == 3

MaxSubmit == 2

MaxInFlight == 1

MaxToolUses == 1

\* Calls of one view in flight at once, where submissions may overlap.
MaxOverlap == 2

\* Length of conversationHistory up to which another view adds to it.
MaxTranscript == 4

\* appendToUserContext calls between their read and their write at once.
MaxWriters == 2
MaxResets == 1
MaxTurns == 2
MaxTrials == 2
MaxSaves == 2
MaxSuffix == 2

(***************************************************************************)
(* Values                                                                  *)
(***************************************************************************)
\* null / '' (every use in the source is a truthiness test)
None == << >>

NL == "\n"

TS == "<timestamp>"

MdExt == ".md"

\* Profile contents the vault may hold before the plugin loads.
InitialContents == { <<"a">> }

\* Contents passed to appendToUserContext / createNewContextFile.
UpdateContents == { <<"x">>, <<"y">> }

\* Contents the model passes to its tools in a chat.
ToolContents == { <<"x">> }

\* File names the model may pass to create_context_file.
FileNames == { <<"notes">>, <<"notes", MdExt>> }

Snapshots == {"root", "core"}

\* The class at the head of src/core/context-manager.ts (lines 4-80).
FirstSnapshot == "first"

\* Storage calls that may throw (permission error, read-only vault, ...).
Faults == {"none", "mkdir", "create", "remove", "recreate", "modify"}

basePath == <<"Context">>

ProfilePathOf(s) ==
    IF s = "root" THEN <<"Profile", MdExt>>
    ELSE basePath \o <<"/", "Profile", MdExt>>

profilePath == ProfilePathOf(cm)

\* name.endsWith('.md')
EndsWithMd(name) == Len(name) > 0 /\ name[Len(name)] = MdExt

\* if (!name.endsWith('.md')) name = `${name}.md`
WithMd(name) == IF EndsWithMd(name) THEN name ELSE name \o <<MdExt>>

ContextPathOf(s, name) ==
    IF s = "root" THEN WithMd(name) ELSE basePath \o <<"/">> \o WithMd(name)

AllPaths(s) == {ProfilePathOf(s)} \cup { ContextPathOf(s, n) : n \in FileNames }

NoFile == [exists |-> FALSE, indexed |-> FALSE, data |-> << >>]

\* vault.adapter.exists(path): the file is on disk
Exists(v, p) == v[p].exists

\* vault.getAbstractFileByPath(path) instanceof TFile: the vault has indexed it
IsTFile(v, p) == v[p].indexed

\* vault.read(file)
Read(v, p) == v[p].data

\* vault.create(path, data) where it succeeds: the file is written and indexed
Created(v, p, data) == [v EXCEPT ![p] = [exists |-> TRUE, indexed |-> TRUE, data |-> data]]

\* vault.modify(file, data)
Modified(v, p, data) == [v EXCEPT ![p] = [exists |-> TRUE, indexed |-> TRUE, data |-> data]]

\* vault.adapter.remove(path)
Removed(v, p) == [v EXCEPT ![p] = NoFile]

\* Set.add on the insertion-ordered Set<string>
SetAdd(s, p) == IF \E i \in 1..Len(s) : s[i] = p THEN s ELSE Append(s, p)

\* Set.delete
SetDelete(s, p) == SelectSeq(s, LAMBDA q : q # p)

Has(s, p) == \E i \in 1..Len(s) : s[i] = p

(***************************************************************************)
(* ContextManager.initialize                                               *)
(***************************************************************************)
\* src/src/context-manager.ts: the profile is added to the set on both branches.
InitializeRoot(v, d, act, f) ==
    LET p == ProfilePathOf("root") IN
    IF ~Exists(v, p)
    THEN IF f = "create"
         THEN [vault |-> v, dir |-> d, active |-> act, raised |-> TRUE]
         ELSE [vault |-> Created(v, p, << >>), dir |-> d,
               active |-> SetAdd(act, p), raised |-> FALSE]
    ELSE [vault |-> v, dir |-> d, active |-> SetAdd(act, p), raised |-> FALSE]

\* src/src/core/context-manager.ts: the folder first, and the profile is
\* added to the set only when it is created here.
InitializeCore(v, d, act, f) ==
    LET p == ProfilePathOf("core") IN
    IF ~d /\ f = "mkdir"
    THEN [vault |-> v, dir |-> d, active |-> act, raised |-> TRUE]
    ELSE IF ~Exists(v, p)
         THEN IF f = "create"
              THEN [vault |-> v, dir |-> TRUE, active |-> act, raised |-> TRUE]
              ELSE [vault |-> Created(v, p, << >>), dir |-> TRUE,
                    active |-> SetAdd(act, p), raised |-> FALSE]
         ELSE [vault |-> v, dir |-> TRUE, active |-> act, raised |-> FALSE]

\* initialize without its existence check: vault.create throws on an existing file
InitializeNoExistsCheck(s, v, d, act, f) ==
    LET p == ProfilePathOf(s) IN
    IF Exists(v, p) \/ f = "create"
    THEN [vault |-> v, dir |-> d, active |-> act, raised |-> TRUE]
    ELSE [vault |-> Created(v, p, << >>), dir |-> (d \/ s = "core"),
          active |-> SetAdd(act, p), raised |-> FALSE]

\* src/src/core/context-manager.ts lines 10-22 read as lines 91-103 do.
InitializeFirst(v, d, act, f) == InitializeCore(v, d, act, f)

Initialize(s, v, d, act, f) ==
    IF s = "root" THEN InitializeRoot(v, d, act, f)
    ELSE IF s = "core" THEN InitializeCore(v, d, act, f)
    ELSE InitializeFirst(v, d, act, f)

(***************************************************************************)
(* ContextManager.appendToUserContext                                      *)
(***************************************************************************)
\* The file the root version holds after its lookup-or-create part
\* (lines 50-66), or the failure it throws there.
ObtainedRoot(v, f) ==
    LET p == ProfilePathOf("root") IN
    IF IsTFile(v, p) THEN [vault |-> v, ok |-> TRUE]
    ELSE IF ~Exists(v, p)
         THEN IF f = "create" THEN [vault |-> v, ok |-> FALSE]
              ELSE [vault |-> Created(v, p, << >>), ok |-> TRUE]
         ELSE \* vault.create throws 'File already exists': remove and recreate
              IF f = "remove" THEN [vault |-> v, ok |-> FALSE]
              ELSE IF f = "recreate" THEN [vault |-> Removed(v, p), ok |-> FALSE]
              ELSE [vault |-> Created(Removed(v, p), p, << >>), ok |-> TRUE]

\* src/src/context-manager.ts: replace the content.
AppendToUserContextRoot(v, d, act, content, f) ==
    LET p == ProfilePathOf("root")
        got == ObtainedRoot(v, f)
    IN IF ~got.ok \/ f = "modify"
       THEN [vault |-> got.vault, dir |-> d, active |-> act, raised |-> TRUE]
       ELSE [vault |-> Modified(got.vault, p, content), dir |-> d,
             active |-> SetAdd(act, p), raised |-> FALSE]

\* currentContent ? `${currentContent}\n\n## Update ${timestamp}\n${content}`
\*                : `## Update ${timestamp}\n${content}`
UpdatedContent(currentContent, content) ==
    IF currentContent # << >>
    THEN currentContent \o <<NL, NL, "## Update ", TS, NL>> \o content
    ELSE <<"## Update ", TS, NL>> \o content

\* src/src/core/context-manager.ts: append a timestamped section.
AppendToUserContextCore(v, d, act, content, f) ==
    LET p == ProfilePathOf("core") IN
    IF ~d /\ f = "mkdir"
    THEN [vault |-> v, dir |-> d, active |-> act, raised |-> TRUE]
    ELSE IF ~Exists(v, p) /\ f = "create"
    THEN [vault |-> v, dir |-> TRUE, active |-> act, raised |-> TRUE]
    ELSE LET v1 == IF Exists(v, p) THEN v ELSE Created(v, p, << >>) IN
         IF ~IsTFile(v1, p) \/ f = "modify"
         THEN [vault |-> v1, dir |-> TRUE, active |-> act, raised |-> TRUE]
         ELSE [vault |-> Modified(v1, p, UpdatedContent(Read(v1, p), content)),
               dir |-> TRUE, active |-> SetAdd(act, p), raised |-> FALSE]

\* appendToUserContext that keeps the old content in front of the new one
\* in the root version as well
AppendToUserContextKeepsOld(s, v, d, act, content, f) ==
    LET p == ProfilePathOf(s)
        r == IF s = "root" THEN AppendToUserContextRoot(v, d, act, content, f)
             ELSE AppendToUserContextCore(v, d, act, content, f)
    IN IF s = "root" /\ ~r.raised
       THEN [r EXCEPT !.vault = Modified(r.vault, p, Read(v, p) \o content)]
       ELSE r

\* src/src/core/context-manager.ts lines 61-70: append after a blank line;
\* nothing happens, and nothing is thrown, when the profile is not a TFile,
\* and the context set is left alone.
AppendToUserContextFirst(v, d, act, content, f) ==
    LET p == ProfilePathOf(FirstSnapshot)
        currentContent == Read(v, p)
        updatedContent == IF currentContent # << >>
                          THEN currentContent \o <<NL, NL>> \o content
                          ELSE content
    IN IF ~IsTFile(v, p)
       THEN [vault |-> v, dir |-> d, active |-> act, raised |-> FALSE]
       ELSE IF f = "modify"
       THEN [vault |-> v, dir |-> d, active |-> act, raised |-> TRUE]
       ELSE [vault |-> Modified(v, p, updatedContent), dir |-> d, active |-> act,
             raised |-> FALSE]

AppendToUserContext(s, v, d, act, content, f) ==
    IF s = "root" THEN AppendToUserContextRoot(v, d, act, content, f)
    ELSE IF s = "core" THEN AppendToUserContextCore(v, d, act, content, f)
    ELSE AppendToUserContextFirst(v, d, act, content, f)

(***************************************************************************)
(* ContextManager.createNewContextFile                                     *)
(***************************************************************************)
\* createNewContextFile that forgets to add the new path to the set
CreateNewContextFileNotAdded(s, v, d, act, name, content, f) ==
    LET p == ContextPathOf(s, name) IN
    IF Exists(v, p) \/ f = "create" \/ (s # "root" /\ ~d)
    THEN [vault |-> v, dir |-> d, active |-> act, raised |-> TRUE, path |-> p,
          name |-> name]
    ELSE [vault |-> Created(v, p, content), dir |-> d,
          active |-> act, raised |-> FALSE, path |-> p, name |-> name]

CreateNewContextFile(s, v, d, act, name, content, f) ==
    LET p == ContextPathOf(s, name) IN
    IF Exists(v, p) \/ f = "create" \/ (s # "root" /\ ~d)
    THEN [vault |-> v, dir |-> d, active |-> act, raised |-> TRUE, path |-> p,
          name |-> name]
    ELSE [vault |-> Created(v, p, content), dir |-> d,
          active |-> SetAdd(act, p), raised |-> FALSE, path |-> p, name |-> name]

(***************************************************************************)
(* ContextManager.getContextContent                                        *)
(***************************************************************************)
\* file.basename: the name after the last '/', without its extension
RECURSIVE Basename(_)
Basename(p) ==
    IF \E i \in 1..Len(p) : p[i] = "/" THEN Basename(Tail(p))
    ELSE IF EndsWithMd(p) THEN SubSeq(p, 1, Len(p) - 1)
    ELSE p

\* `# ${file.basename}\n${content}\n\n` for each path of the set that is a
\* TFile, in the set's order; the files are read at the time of the call.
RECURSIVE GetContextContent(_, _)
GetContextContent(v, act) ==
    IF act = << >> THEN << >>
    ELSE (IF IsTFile(v, Head(act))
          THEN <<"# ">> \o Basename(Head(act)) \o <<NL>> \o Read(v, Head(act)) \o <<NL, NL>>
          ELSE << >>)
         \o GetContextContent(v, Tail(act))

(***************************************************************************)
(* The vault before the plugin loads, and the ContextManager as built.     *)
(***************************************************************************)
\* The profile may be missing, or on disk and not yet indexed by the vault
\* (as it is while Obsidian is still loading), or on disk and indexed.
ProfileFiles ==
    {NoFile} \cup { [exists |-> TRUE, indexed |-> i, data |-> c] :
                      i \in BOOLEAN, c \in InitialContents }

\* No appendToUserContext call is between its read and its write, and none
\* has written yet.
NoWrites == [inFlight |-> {},
             completed |-> [id |-> 0, content |-> << >>, base |-> << >>,
                            updated |-> << >>, overtakenBy |-> << >>, raised |-> FALSE]]

\* The key loaded from the plugin's data (empty when none was saved).
SavedKey == <<"k0">>

\* The keys after onload: with a saved key the client is created from it,
\* and the settings tab starts with the saved key in its field.
KeysAtLoad(client) ==
    LET k == IF client THEN SavedKey ELSE None
    IN [apiKey |-> k, tempApiKey |-> k, client |-> k, trials |-> {},
        nTrials |-> 0, verified |-> {}]

NoCall == [op |-> "none", raised |-> FALSE, pre |-> << >>, arg |-> << >>,
           name |-> << >>, fault |-> "none", streak |-> 0]

NoExchange == [kind |-> "none", content |-> << >>, outcome |-> "none",
               rendered |-> << >>, firstTool |-> FALSE, toolFailed |-> FALSE,
               tool |-> "none", follow |-> "none", followText |-> << >>,
               rejected |-> FALSE, reqs |-> 0, retry |-> FALSE, failedKept |-> << >>]

NewSession == [seeded |-> FALSE, clean |-> TRUE, submits |-> 0, retries |-> 0,
               failures |-> 0, since |-> 0]

StoreInit ==
    /\ cm \in Snapshots
    /\ \E pf \in ProfileFiles :
          vault = [p \in AllPaths(cm) |-> IF p = ProfilePathOf(cm) THEN pf ELSE NoFile]
    /\ dir \in (IF cm = "core" /\ ~vault[ProfilePathOf(cm)].exists THEN BOOLEAN
                ELSE {cm = "core"})
    /\ activeContextFiles = << >>
    /\ last = NoCall
    /\ ops = 0
    /\ writes = NoWrites

ChatIdle ==
    /\ conversationHistory = << >>
    /\ messages = << >>
    /\ chatName = None
    /\ lastFailedMessage = None
    /\ tasks = {}
    /\ opened = FALSE
    /\ nSubmitted = 0
    /\ nTools = 0
    /\ sess = NewSession
    /\ done = NoExchange

\* TesseraPlugin before onload: no view is registered yet.
InitStore ==
    /\ StoreInit
    /\ anthropic = FALSE
    /\ apiKeys = KeysAtLoad(anthropic)
    /\ ChatIdle

(***************************************************************************)
(* Direct calls of the ContextManager (onload, commands, context selector) *)
(***************************************************************************)
Called(op, r, arg, f) ==
    /\ vault' = r.vault
    /\ dir' = r.dir
    /\ activeContextFiles' = r.active
    /\ last' = [op |-> op, raised |-> r.raised, pre |-> vault, arg |-> arg,
                name |-> IF op = "createNewContextFile" THEN r.name ELSE << >>,
                fault |-> f,
                streak |-> IF last.op = op /\ ~last.raised THEN 2 ELSE 1]
    /\ ops' = ops + 1
    /\ UNCHANGED writes

CallInitialize(f) ==
    /\ ops < MaxOps
    /\ Called("initialize", Initialize(cm, vault, dir, activeContextFiles, f), << >>, f)
    /\ UNCHANGED <<cm, chatVars>>

CallAppendToUserContext(content, f) ==
    /\ ops < MaxOps
    /\ Called("appendToUserContext",
              AppendToUserContext(cm, vault, dir, activeContextFiles, content, f),
              content, f)
    /\ UNCHANGED <<cm, chatVars>>

CallCreateNewContextFile(name, content, f) ==
    /\ ops < MaxOps
    /\ Called("createNewContextFile",
              CreateNewContextFile(cm, vault, dir, activeContextFiles, name, content, f),
              content, f)
    /\ UNCHANGED <<cm, chatVars>>

AddToContext(p) ==
    /\ ops < MaxOps
    /\ Called("addToContext",
              [vault |-> vault, dir |-> dir, active |-> SetAdd(activeContextFiles, p),
               raised |-> FALSE], p, "none")
    /\ UNCHANGED <<cm, chatVars>>

RemoveFromContext(p) ==
    /\ ops < MaxOps
    /\ Called("removeFromContext",
              [vault |-> vault, dir |-> dir, active |-> SetDelete(activeContextFiles, p),
               raised |-> FALSE], p, "none")
    /\ UNCHANGED <<cm, chatVars>>

ClearContext ==
    /\ ops < MaxOps
    /\ Called("clearContext",
              [vault |-> vault, dir |-> dir, active |-> << >>, raised |-> FALSE],
              << >>, "none")
    /\ UNCHANGED <<cm, chatVars>>

\* The vault finishes indexing a file that is on disk.
VaultIndexes(p) ==
    /\ vault[p].exists /\ ~vault[p].indexed
    /\ vault' = [vault EXCEPT ![p].indexed = TRUE]
    /\ last' = [last EXCEPT !.op = "none", !.streak = 0]
    /\ UNCHANGED <<cm, dir, activeContextFiles, ops, writes, chatVars>>

NextStore ==
    \/ \E f \in Faults : CallInitialize(f)
    \/ \E c \in UpdateContents, f \in Faults : CallAppendToUserContext(c, f)
    \/ \E n \in FileNames, c \in UpdateContents, f \in Faults :
          CallCreateNewContextFile(n, c, f)
    \/ \E p \in AllPaths(cm) : AddToContext(p)
    \/ \E p \in AllPaths(cm) : RemoveFromContext(p)
    \/ ClearContext
    \/ \E p \in AllPaths(cm) : VaultIndexes(p)

SpecStore == InitStore /\ [][NextStore]_vars

(***************************************************************************)
(* The completion endpoint                                                 *)
(***************************************************************************)
\* Texts the user may type.
UserTexts == { <<"m1", " ">> }

\* Texts the model may reply with.
ReplyTexts == { <<"r1">> }

\* Titles the model may propose for a chat.
TitleTexts == { <<"T", "/", "1", " ">> }

START_CONVERSATION == <<"START_CONVERSATION">>

INITIAL_MESSAGE == <<"Please start the conversation with a succinct: 'What's on your mind?'.">>

FailedToGetResponse == <<"Failed to get response from AI">>

ReceivedNonText == <<"Received non-text response">>

FailedToStart == <<"Failed to start conversation">>

UntitledChat == <<"Untitled Chat">>

TextResponses == { [type |-> "text", text |-> r, name |-> "none",
                    content |-> << >>, filename |-> << >>] : r \in ReplyTexts }

ToolResponses ==
    { [type |-> "tool_use", text |-> << >>, name |-> "update_context",
       content |-> c, filename |-> << >>] : c \in ToolContents }
    \cup
    { [type |-> "tool_use", text |-> << >>, name |-> "create_context_file",
       content |-> c, filename |-> n] : c \in ToolContents, n \in FileNames }

\* What response.content[0] can be: a tool invocation only when the request
\* carried the tool schema.
Responses(tools) == IF tools THEN TextResponses \cup ToolResponses ELSE TextResponses

\* sendToolResult passes `tools: tools` with its request (main.ts:526).
FollowUpTools == TRUE

\* String.prototype.trim
RECURSIVE TrimLeft(_)
TrimLeft(t) == IF t # << >> /\ Head(t) = " " THEN TrimLeft(Tail(t)) ELSE t

RECURSIVE TrimRight(_)
TrimRight(t) ==
    IF t # << >> /\ t[Len(t)] = " " THEN TrimRight(SubSeq(t, 1, Len(t) - 1)) ELSE t

Trim(t) == TrimRight(TrimLeft(t))

SpecialChars == {"<", ">", ":", "\"", "/", "\\", "|", "?", "*"}

\* response.replace(/[<>:"/\\|?*]/g, '-').trim()
SanitizedName(t) == Trim([i \in 1..Len(t) |-> IF t[i] \in SpecialChars THEN "-" ELSE t[i]])

User(c) == [role |-> "user", content |-> c]

Assistant(c) == [role |-> "assistant", content |-> c]

UserTurns(m) == Len(SelectSeq(m, LAMBDA x : x.role = "user"))

AssistantTurns(m) == Len(SelectSeq(m, LAMBDA x : x.role = "assistant"))

(***************************************************************************)
(* The plugin after onload, with no chat view open yet.                    *)
(***************************************************************************)
Loaded(snapshots) ==
    /\ cm \in snapshots
    /\ \E pf \in ProfileFiles, d \in BOOLEAN :
          LET v0 == [p \in AllPaths(cm) |-> IF p = ProfilePathOf(cm) THEN pf ELSE NoFile]
              r  == Initialize(cm, v0, d, << >>, "none")
          IN /\ d => cm # "root"
             /\ pf.exists /\ cm # "root" => d
             /\ ~r.raised
             /\ vault = r.vault
             /\ dir = r.dir
             /\ activeContextFiles = r.active
    /\ last = NoCall
    /\ ops = 0
    /\ writes = NoWrites
    /\ anthropic \in BOOLEAN
    /\ apiKeys = KeysAtLoad(anthropic)
    /\ ChatIdle

Init == Loaded(Snapshots)

\* The ContextManager of each of the three sources after onload, called
\* directly from then on.
InitLoaded == Loaded(Snapshots \cup {FirstSnapshot})

SpecLoaded == InitLoaded /\ [][NextStore]_vars

(***************************************************************************)
(* ConversationView and TesseraPlugin.sendMessage                          *)
(***************************************************************************)
NewTask(kind, content, retry, pc) ==
    [id |-> nSubmitted + 1, kind |-> kind, content |-> content, retry |-> retry,
     pc |-> pc, tools |-> FALSE, inCatch |-> FALSE, isError |-> FALSE, reqs |-> 0,
     firstTool |-> FALSE, tool |-> "none", toolFailed |-> FALSE, rejected |-> FALSE]

\* A view that shows nothing for a response that is not a text block.
PushedOnlyText(t, outcome, resp) ==
    IF outcome = "resolved"
    THEN IF resp.type = "text" THEN <<Assistant(resp.text)>> ELSE << >>
    ELSE IF t.kind = "send" THEN <<Assistant(FailedToGetResponse)>>
    ELSE << >>

\* What the view pushes to its messages once plugin.sendMessage has settled
\* for task t: outcome "resolved" with the response it returned, or "failed".
Pushed(t, outcome, resp) ==
    LET responseText ==
            IF resp.type = "text" THEN resp.text
            ELSE IF t.kind = "send" THEN ReceivedNonText ELSE FailedToStart
    IN IF outcome = "resolved" THEN <<Assistant(responseText)>>
       ELSE IF t.kind = "send" THEN <<Assistant(FailedToGetResponse)>>
       ELSE << >>

\* this.lastFailedMessage after the view (and the retry handler, if the call
\* was a retry) has handled the outcome.
FailedMessageAfter(t, outcome) ==
    IF t.retry THEN None
    ELSE IF outcome = "failed" /\ t.kind = "send" THEN t.content
    ELSE lastFailedMessage

\* The view's continuation once plugin.sendMessage has settled, msgs being
\* the view's messages at that moment.
Settled(t, outcome, resp, msgs) ==
    LET pushed == Pushed(t, outcome, resp) IN
    /\ messages' = msgs \o pushed
    /\ lastFailedMessage' = FailedMessageAfter(t, outcome)
    /\ tasks' = {x \in tasks : x.id # t.id}
    /\ done' = [kind |-> t.kind, content |-> t.content, outcome |-> outcome,
                rendered |-> IF pushed = << >> THEN << >> ELSE pushed[1].content,
                firstTool |-> t.firstTool, toolFailed |-> t.toolFailed,
                tool |-> t.tool,
                follow |-> IF t.pc # "req2" THEN "none"
                           ELSE IF outcome = "failed" THEN "rejected" ELSE resp.type,
                followText |-> IF t.pc = "req2" /\ outcome = "resolved"
                               THEN resp.text ELSE << >>,
                rejected |-> t.rejected \/ (outcome = "failed" /\ t.reqs > 0),
                reqs |-> t.reqs, retry |-> t.retry,
                failedKept |-> FailedMessageAfter(t, outcome)]

SessionAfter(se, t, outcome) ==
    [se EXCEPT !.seeded = @ \/ (t.kind = "initial" /\ outcome = "resolved"),
               !.failures = @ + (IF outcome = "failed" /\ t.kind = "send" THEN 1 ELSE 0)]

NoResponse == [type |-> "none", text |-> << >>, name |-> "none",
               content |-> << >>, filename |-> << >>]

\* sendMessage without its client guard: the request is attempted anyway.
RequestedUnguarded(t, msgs, se) ==
    /\ conversationHistory' =
          IF t.content = START_CONVERSATION THEN <<User(INITIAL_MESSAGE)>>
          ELSE Append(conversationHistory, User(t.content))
    /\ tasks' = (tasks \ {t}) \cup
                    {[t EXCEPT !.pc = "req1", !.tools = TRUE, !.reqs = 1]}
    /\ messages' = msgs
    /\ sess' = se
    /\ UNCHANGED <<lastFailedMessage, done>>

\* TesseraPlugin.sendMessage up to its first request, called by task t of
\* the view whose messages are msgs and whose session bookkeeping is se:
\* without a client it throws at once, otherwise the user turn is pushed to
\* conversationHistory and the request is sent with the tool schema.
Requested(t, msgs, se) ==
    IF ~anthropic
    THEN /\ Settled(t, "failed", NoResponse, msgs)
         /\ sess' = SessionAfter(se, t, "failed")
         /\ UNCHANGED conversationHistory
    ELSE /\ conversationHistory' =
               IF t.content = START_CONVERSATION THEN <<User(INITIAL_MESSAGE)>>
               ELSE Append(conversationHistory, User(t.content))
         /\ tasks' = (tasks \ {t}) \cup
                         {[t EXCEPT !.pc = "req1", !.tools = TRUE, !.reqs = 1]}
         /\ messages' = msgs
         /\ sess' = se
         /\ UNCHANGED <<lastFailedMessage, done>>

\* ConversationView.onOpen: the view opens and calls sendInitialMessage.
OnOpen ==
    /\ ~opened
    /\ opened' = TRUE
    /\ nSubmitted' = nSubmitted + 1
    /\ Requested(NewTask("initial", START_CONVERSATION, FALSE, "start"), messages, sess)
    /\ UNCHANGED <<storeVars, anthropic, apiKeys, chatName, nTools>>

\* ConversationView.sendMessage up to the first request it waits for: the
\* user turn is pushed, the chat name is asked for after the first user
\* message, and otherwise plugin.sendMessage is called.
Submitted(content, retry) ==
    LET msgs == Append(messages, User(Trim(content)))
        wantsName == chatName = None /\ UserTurns(msgs) = 1
        se == [sess EXCEPT !.submits = @ + 1, !.clean = @ /\ tasks = {},
                           !.retries = @ + (IF retry THEN 1 ELSE 0)]
    IN /\ Trim(content) # << >>
       /\ nSubmitted' = nSubmitted + 1
       /\ IF wantsName /\ anthropic
          THEN /\ messages' = msgs
               /\ tasks' = tasks \cup {NewTask("send", content, retry, "title")}
               /\ sess' = se
               /\ UNCHANGED <<chatName, conversationHistory, lastFailedMessage, done>>
          ELSE /\ chatName' = IF wantsName THEN UntitledChat ELSE chatName
               /\ Requested(NewTask("send", content, retry, "start"), msgs, se)
       /\ UNCHANGED <<storeVars, anthropic, apiKeys, opened, nTools>>

\* The user presses Enter or clicks the send button.
Submit(content) ==
    /\ opened
    /\ nSubmitted < MaxSubmit + 1
    /\ Cardinality(tasks) < MaxInFlight
    /\ Submitted(content, FALSE)

\* The user clicks the retry button of an error turn.
Retry ==
    /\ opened
    /\ nSubmitted < MaxSubmit + 1
    /\ Cardinality(tasks) < MaxInFlight
    /\ \E i \in 1..Len(messages) : messages[i] = Assistant(FailedToGetResponse)
    /\ lastFailedMessage # None
    /\ Submitted(lastFailedMessage, TRUE)

\* generateChatName settles, and plugin.sendMessage is called.
TitleSettled(t, ok, title) ==
    /\ t \in tasks /\ t.pc = "title"
    /\ chatName' = IF ok THEN SanitizedName(Trim(title)) ELSE UntitledChat
    /\ Requested(t, messages, sess)
    /\ UNCHANGED <<storeVars, anthropic, apiKeys, opened, nSubmitted, nTools>>

\* The first request resolves with a text block.
FirstText(t, resp) ==
    /\ t \in tasks /\ t.pc = "req1"
    /\ resp.type = "text"
    /\ conversationHistory' = Append(conversationHistory, Assistant(resp.text))
    /\ Settled(t, "resolved", resp, messages)
    /\ sess' = SessionAfter(sess, t, "resolved")
    /\ UNCHANGED <<storeVars, anthropic, apiKeys, chatName, opened, nSubmitted, nTools>>

\* toolUse.input.filename || 'untitled.md'
FilenameOrUntitled(n) == IF n = << >> THEN <<"untitled", MdExt>> ELSE n

\* The tool a tool_use block names, applied to the store.
Applied(resp, f) ==
    IF resp.name = "update_context"
    THEN AppendToUserContext(cm, vault, dir, activeContextFiles, resp.content, f)
    ELSE IF resp.name = "create_context_file"
    THEN CreateNewContextFile(cm, vault, dir, activeContextFiles,
                              FilenameOrUntitled(resp.filename), resp.content, f)
    ELSE [vault |-> vault, dir |-> dir, active |-> activeContextFiles, raised |-> FALSE]

\* A catch block that rethrows the tool's error instead of reporting it.
AfterToolRethrows(raised) == [followUp |-> ~raised, inCatch |-> FALSE, isError |-> FALSE]

\* What follows the tool (main.ts:422-427): sendToolResult is called from the
\* try block, or from the catch block with is_error if the tool threw.
AfterTool(raised) == [followUp |-> TRUE, inCatch |-> raised, isError |-> raised]

\* The first request resolves with a tool_use block: the tool is applied and
\* sendToolResult issues the follow-up request.
FirstToolUse(t, resp, f) ==
    /\ t \in tasks /\ t.pc = "req1"
    /\ resp.type = "tool_use"
    /\ nTools < MaxToolUses
    /\ nTools' = nTools + 1
    /\ LET r  == Applied(resp, f)
           a  == AfterTool(r.raised)
           t1 == [t EXCEPT !.firstTool = TRUE, !.tool = resp.name,
                           !.toolFailed = r.raised]
       IN /\ vault' = r.vault
          /\ dir' = r.dir
          /\ activeContextFiles' = r.active
          /\ IF a.followUp
             THEN /\ tasks' = (tasks \ {t}) \cup
                                 {[t1 EXCEPT !.pc = "req2", !.tools = FollowUpTools,
                                             !.reqs = 2, !.inCatch = a.inCatch,
                                             !.isError = a.isError]}
                  /\ UNCHANGED <<messages, lastFailedMessage, sess, done>>
             ELSE /\ Settled(t1, "failed", NoResponse, messages)
                  /\ sess' = SessionAfter(sess, t, "failed")
    /\ UNCHANGED <<cm, last, ops, writes, anthropic, apiKeys, conversationHistory, chatName,
                   opened, nSubmitted>>

\* The first request rejects.
FirstRejected(t) ==
    /\ t \in tasks /\ t.pc = "req1"
    /\ Settled(t, "failed", NoResponse, messages)
    /\ sess' = SessionAfter(sess, t, "failed")
    /\ UNCHANGED <<storeVars, anthropic, apiKeys, conversationHistory, chatName, opened,
                   nSubmitted, nTools>>

\* A follow-up request resolves: its response is returned as it is.
FollowUpResolved(t, resp) ==
    /\ t \in tasks /\ t.pc = "req2"
    /\ resp \in Responses(t.tools)
    /\ Settled(t, "resolved", resp, messages)
    /\ sess' = SessionAfter(sess, t, "resolved")
    /\ UNCHANGED <<storeVars, anthropic, apiKeys, conversationHistory, chatName, opened,
                   nSubmitted, nTools>>

\* A follow-up request rejects: the one sent from the try block is caught by
\* the tool's catch block, which calls sendToolResult again with is_error;
\* the one sent from the catch block fails sendMessage.
FollowUpRejected(t) ==
    /\ t \in tasks /\ t.pc = "req2"
    /\ IF t.inCatch
       THEN /\ Settled(t, "failed", NoResponse, messages)
            /\ sess' = SessionAfter(sess, t, "failed")
       ELSE /\ tasks' = (tasks \ {t}) \cup
                          {[t EXCEPT !.inCatch = TRUE, !.isError = TRUE,
                                     !.tools = FollowUpTools, !.reqs = @ + 1,
                                     !.rejected = TRUE]}
            /\ UNCHANGED <<messages, lastFailedMessage, sess, done>>
    /\ UNCHANGED <<storeVars, anthropic, apiKeys, conversationHistory, chatName, opened,
                   nSubmitted, nTools>>

Next ==
    \/ OnOpen
    \/ \E c \in UserTexts : Submit(c)
    \/ Retry
    \/ \E t \in tasks, ok \in BOOLEAN, title \in TitleTexts : TitleSettled(t, ok, title)
    \/ \E t \in tasks, resp \in TextResponses : FirstText(t, resp)
    \/ \E t \in tasks, resp \in ToolResponses, f \in Faults : FirstToolUse(t, resp, f)
    \/ \E t \in tasks : FirstRejected(t)
    \/ \E t \in tasks, resp \in TextResponses \cup ToolResponses : FollowUpResolved(t, resp)
    \/ \E t \in tasks : FollowUpRejected(t)
    \/ \E p \in AllPaths(cm) : VaultIndexes(p)

Spec == Init /\ [][Next]_vars

(***************************************************************************)
(* Properties of the profile store (checked under SpecStore)               *)
(***************************************************************************)
IsPrefix(a, b) == Len(a) <= Len(b) /\ SubSeq(b, 1, Len(a)) = a

IsSuffix(a, b) == Len(a) <= Len(b) /\ SubSeq(b, Len(b) - Len(a) + 1, Len(b)) = a

ProfileText == Read(vault, profilePath)

ProfileTextBefore == Read(last.pre, profilePath)

UpdateApplied == last.op = "appendToUserContext" /\ ~last.raised

UpdateFailed == last.op = "appendToUserContext" /\ last.raised

\* C6: if the profile update performed by appendToUserContext fails at any
\* step, the profile's content after the attempt is what it was before.
C6_FailedUpdateLeavesContent ==
    UpdateFailed => ProfileText = ProfileTextBefore

C10_InitializeIdempotent ==
    (last.op = "initialize" /\ last.streak = 2) =>
        /\ ~last.raised
        /\ vault[profilePath] = last.pre[profilePath]

C10_Witness ==
    /\ last.op = "initialize" /\ last.streak = 2
    /\ vault[profilePath].exists


(***************************************************************************)
(* Properties of the conversation (checked under Spec)                     *)
(***************************************************************************)
Alternates(m) ==
    \A i \in 1..Len(m) : m[i].role = IF i % 2 = 1 THEN "user" ELSE "assistant"

\* Every submission so far has completed, and none of them failed.
AllCompleted == opened /\ tasks = {} /\ sess.failures = 0

C2_ToolTransparency ==
    (done.kind = "send" /\ done.firstTool /\ done.outcome = "resolved") =>
        /\ done.follow = "text"
        /\ done.rendered = done.followText

\* C3: one user message causes at most two completion requests, the initial
\* one and, if it returned a tool_use, one follow-up.
C3_AtMostTwoRequests ==
    /\ \A t \in tasks : t.reqs <= 2
    /\ done.reqs <= 2

\* C4: the follow-up request that carries the tool result is sent without
\* the tool schema.
C4_FollowUpWithoutTools ==
    \A t \in tasks : t.pc = "req2" => ~t.tools

C7_RejectionShowsError ==
    (done.kind = "send" /\ done.rejected) =>
        /\ done.rendered = FailedToGetResponse
        /\ done.failedKept = done.content

\* C8: retrying a failed message resubmits the failed text without adding a
\* user turn for it, in the view's messages or in the transcript sent to the
\* model.
C8_RetryAddsNoUserTurn ==
    [][sess'.retries > sess.retries =>
          /\ UserTurns(messages') = UserTurns(messages)
          /\ UserTurns(conversationHistory') = UserTurns(conversationHistory)]_vars

(***************************************************************************)
(* Properties of the loaded ContextManager (checked under SpecLoaded)      *)
(***************************************************************************)
Contains(text, part) ==
    \E i \in 0..(Len(text) - Len(part)) : SubSeq(text, i + 1, i + Len(part)) = part

\* C11: if appendToUserContext has changed the profile's content, the text
\* getContextContent returns next contains the new content, whether the
\* profile existed at initialization or was created by it.
C11_ContextFresh ==
    (UpdateApplied /\ ProfileText # ProfileTextBefore) =>
        Contains(GetContextContent(vault, activeContextFiles), ProfileText)

\* C12: once initialize() has completed, the profile's path is a member of
\* activeContextFiles in every reachable state.
C12_ProfileAlwaysInContext ==
    Has(activeContextFiles, profilePath)

\* C13: no operation deletes the profile document: once it exists, it
\* exists after every step, a failed update included.
C13_ProfileNeverDeleted ==
    [][Exists(vault, profilePath) => Exists(vault', profilePath)]_vars

(***************************************************************************)
(* The plugin with its registered commands (SpecCommands)                  *)
(***************************************************************************)
\* `Test update at ${new Date().toLocaleString()}`
TestContent == <<"Test update at ", TS>>

\* The command 'Debug: Test Context Update': appendToUserContext is called
\* with the test content, and what it throws is caught and shown as a notice.
TestContextUpdate(f) ==
    /\ ops < MaxOps
    /\ Called("appendToUserContext",
              AppendToUserContext(cm, vault, dir, activeContextFiles, TestContent, f),
              TestContent, f)
    /\ UNCHANGED <<cm, chatVars>>

NextCommands ==
    \/ Next
    \/ \E f \in Faults : TestContextUpdate(f)

SpecCommands == Init /\ [][NextCommands]_vars

\* A step in which the tool dispatcher applies an update_context invocation.
UpdateContextDispatched ==
    /\ nTools' = nTools + 1
    /\ \E t \in tasks' : t \notin tasks /\ t.tool = "update_context"

\* C14: the profile's content changes only in a step in which the tool
\* dispatcher applies an update_context invocation returned by the model; no
\* UI action or registered command changes it.
C14_OnlyDispatcherWrites ==
    [][Read(vault', profilePath) # Read(vault, profilePath) => UpdateContextDispatched]_vars

(***************************************************************************)
(* The view with its 'new chat' button (SpecNewChat)                       *)
(***************************************************************************)
\* The click on 'new chat': the conversation is saved if it has messages
\* (to a document under 'Saved Chats', which is none of the vault paths kept
\* here, and a chat name it generates is cleared again), then startNewChat
\* empties the messages, the chat name and the plugin's conversationHistory
\* and calls sendInitialMessage.
NewChat ==
    /\ opened
    /\ nSubmitted < MaxSubmit + 1
    /\ Cardinality(tasks) < MaxInFlight
    /\ nSubmitted' = nSubmitted + 1
    /\ chatName' = None
    /\ Requested(NewTask("initial", START_CONVERSATION, FALSE, "start"), << >>,
                 [NewSession EXCEPT !.since = nSubmitted + 1])
    /\ UNCHANGED <<storeVars, anthropic, apiKeys, opened, nTools>>

NextNewChat ==
    \/ Next
    \/ NewChat

SpecNewChat == Init /\ [][NextNewChat]_vars

\* The initial request of a new chat is in flight: the click has happened
\* and the new session has not shown its first turn yet.
NewChatStarting == \E t \in tasks : t.kind = "initial" /\ t.id > 1

\* C15: starting a new chat clears the turns of the session, and from the
\* click until the new session shows its first turn the profile's content
\* does not change.
C15_NewChatLeavesProfile ==
    [][/\ (NewChatStarting' /\ ~NewChatStarting) => messages' = << >>
       /\ (NewChatStarting \/ NewChatStarting') =>
              Read(vault', profilePath) = Read(vault, profilePath)]_vars

(***************************************************************************)
(* More properties of the conversation (checked under Spec)                *)
(***************************************************************************)
\* C16: while no completion client is initialized, every sendMessage and
\* generateChatName call fails at once and no completion request is issued:
\* no call is ever waiting for a response, the calls that ended failed
\* without a request, the chat name fell back to 'Untitled Chat', and
\* nothing was put in the transcript.
C16_NoClientNoRequest ==
    ~anthropic =>
        /\ tasks = {}
        /\ done.reqs = 0
        /\ done.kind # "none" => done.outcome = "failed"
        /\ UserTurns(messages) >= 1 => chatName = UntitledChat
        /\ conversationHistory = << >>

C16_Witness ==
    /\ ~anthropic
    /\ done.kind = "send" /\ done.outcome = "failed"
    /\ chatName = UntitledChat
    /\ messages # << >>
    /\ messages[Len(messages)] = Assistant(FailedToGetResponse)

(***************************************************************************)
(* The view with submissions made while a request is in flight (SpecBusy)  *)
(***************************************************************************)
\* The user presses Enter or clicks the send button while an earlier call is
\* still waiting for a response: the listeners call sendMessage all the same.
SubmitWhileBusy(content) ==
    /\ opened
    /\ nSubmitted < MaxSubmit + 1
    /\ tasks # {}
    /\ Cardinality(tasks) < MaxOverlap
    /\ Submitted(content, FALSE)

NextBusy ==
    \/ Next
    \/ \E c \in UserTexts : SubmitWhileBusy(c)

SpecBusy == Init /\ [][NextBusy]_vars

\* The calls of the view that are waiting for a completion request.
Outstanding == {t \in tasks : t.pc \in {"title", "req1", "req2"}}

\* C17: the view has at most one completion request outstanding at any time,
\* and a submission made while one is in flight starts nothing.
C17_OneOutstandingRequest ==
    Cardinality(Outstanding) <= 1

(***************************************************************************)
(* A second chat view on the same plugin (SpecViews).  Of the second view  *)
(* only what its calls do to the plugin is kept, and each of its exchanges *)
(* runs to its end in one step.                                            *)
(***************************************************************************)
\* What plugin.sendMessage leaves in conversationHistory for a call that
\* gets a text reply (ok) or whose request is rejected.
HistoryAfter(history, content, ok, reply) ==
    (IF content = START_CONVERSATION THEN <<User(INITIAL_MESSAGE)>>
     ELSE Append(history, User(content)))
    \o (IF ok THEN <<Assistant(reply)>> ELSE << >>)

\* Another ConversationView opens, or starts a new chat: its
\* sendInitialMessage calls plugin.sendMessage("START_CONVERSATION").
OtherViewOpens(ok, reply) ==
    /\ anthropic
    /\ conversationHistory' = HistoryAfter(conversationHistory, START_CONVERSATION, ok, reply)
    /\ UNCHANGED <<storeVars, anthropic, apiKeys, messages, chatName, lastFailedMessage,
                   tasks, opened, nSubmitted, nTools, sess, done>>

\* Another ConversationView submits a message.
OtherViewSubmits(content, ok, reply) ==
    /\ anthropic
    /\ Len(conversationHistory) < MaxTranscript
    /\ conversationHistory' = HistoryAfter(conversationHistory, content, ok, reply)
    /\ UNCHANGED <<storeVars, anthropic, apiKeys, messages, chatName, lastFailedMessage,
                   tasks, opened, nSubmitted, nTools, sess, done>>

NextViews ==
    \/ Next
    \/ \E ok \in BOOLEAN, r \in ReplyTexts : OtherViewOpens(ok, r)
    \/ \E c \in UserTexts, ok \in BOOLEAN, r \in ReplyTexts : OtherViewSubmits(c, ok, r)

SpecViews == Init /\ [][NextViews]_vars

\* A step of the view whose state is kept: it submits, or one of its calls
\* moves on.
ThisViewActs == nSubmitted' # nSubmitted \/ tasks' # tasks

\* C18: no step of another view changes the transcript this view sends to
\* the model: conversationHistory changes only in steps of this view.
C18_TranscriptOwnedByView ==
    [][(opened /\ conversationHistory' # conversationHistory) => ThisViewActs]_vars

(***************************************************************************)
(* appendToUserContext calls that overlap (SpecRace): a call does its      *)
(* lookup and its read, awaits, and then writes.                           *)
(***************************************************************************)
\* appendToUserContext up to its vault.modify: the vault it leaves, whether
\* it goes on to write (ok) or has thrown (raised), and the text it is going
\* to write.
ReadForUpdate(s, v, d, content, f) ==
    LET p == ProfilePathOf(s) IN
    IF s = "root"
    THEN LET got == ObtainedRoot(v, f)
         IN [vault |-> got.vault, dir |-> d, ok |-> got.ok, raised |-> ~got.ok,
             updated |-> content]
    ELSE IF s = "core"
    THEN IF ~d /\ f = "mkdir"
         THEN [vault |-> v, dir |-> d, ok |-> FALSE, raised |-> TRUE, updated |-> << >>]
         ELSE IF ~Exists(v, p) /\ f = "create"
         THEN [vault |-> v, dir |-> TRUE, ok |-> FALSE, raised |-> TRUE, updated |-> << >>]
         ELSE LET v1 == IF Exists(v, p) THEN v ELSE Created(v, p, << >>) IN
              IF ~IsTFile(v1, p)
              THEN [vault |-> v1, dir |-> TRUE, ok |-> FALSE, raised |-> TRUE,
                    updated |-> << >>]
              ELSE [vault |-> v1, dir |-> TRUE, ok |-> TRUE, raised |-> FALSE,
                    updated |-> UpdatedContent(Read(v1, p), content)]
    ELSE IF ~IsTFile(v, p)
         THEN [vault |-> v, dir |-> d, ok |-> FALSE, raised |-> FALSE, updated |-> << >>]
         ELSE [vault |-> v, dir |-> d, ok |-> TRUE, raised |-> FALSE,
               updated |-> IF Read(v, p) # << >> THEN Read(v, p) \o <<NL, NL>> \o content
                           ELSE content]

\* A write that reads the profile again when it writes and adds to that.
WrittenAfterReread(w, v) == Read(v, profilePath) \o <<NL, NL>> \o w.content

\* vault.modify(file, updatedContent): the text computed before the await.
Written(w, v) == w.updated

\* An appendToUserContext call runs up to its write.
BeginAppend(content, f) ==
    /\ ops < MaxOps
    /\ Cardinality(writes.inFlight) < MaxWriters
    /\ ops' = ops + 1
    /\ LET r == ReadForUpdate(cm, vault, dir, content, f)
       IN /\ vault' = r.vault
          /\ dir' = r.dir
          /\ writes' = IF r.ok
                       THEN [writes EXCEPT !.inFlight = @ \cup
                                {[id |-> ops + 1, content |-> content,
                                  base |-> Read(r.vault, profilePath),
                                  updated |-> r.updated, overtakenBy |-> << >>]}]
                       ELSE writes
    /\ UNCHANGED <<cm, activeContextFiles, last, chatVars>>

\* The call writes, or its vault.modify throws.
CompleteAppend(w, f) ==
    /\ w \in writes.inFlight
    /\ IF f = "modify"
       THEN /\ writes' = [inFlight |-> writes.inFlight \ {w},
                          completed |-> [id |-> w.id, content |-> w.content,
                                         base |-> w.base, updated |-> w.updated,
                                         overtakenBy |-> w.overtakenBy, raised |-> TRUE]]
            /\ UNCHANGED <<vault, activeContextFiles>>
       ELSE /\ vault' = Modified(vault, profilePath, Written(w, vault))
            /\ activeContextFiles' = IF cm = FirstSnapshot THEN activeContextFiles
                                     ELSE SetAdd(activeContextFiles, profilePath)
            /\ writes' = [inFlight |-> {[x EXCEPT !.overtakenBy = w.content] :
                                           x \in writes.inFlight \ {w}},
                          completed |-> [id |-> w.id, content |-> w.content,
                                         base |-> w.base, updated |-> w.updated,
                                         overtakenBy |-> w.overtakenBy, raised |-> FALSE]]
    /\ UNCHANGED <<cm, dir, last, ops, chatVars>>

NextRace ==
    \/ \E c \in UpdateContents, f \in Faults \ {"modify"} : BeginAppend(c, f)
    \/ \E w \in writes.inFlight, f \in {"none", "modify"} : CompleteAppend(w, f)
    \/ \E p \in AllPaths(cm) : VaultIndexes(p)

SpecRace == InitLoaded /\ [][NextRace]_vars

\* The last appendToUserContext call that wrote.
LastWrite == writes.completed

\* C19: when profile updates race, the later write wins: after a write has
\* completed the profile holds exactly the text that write computed from its
\* own read and its own content, and the content of an update written in
\* between, which it did not read, is not in it.
C19_LaterWriteWins ==
    (LastWrite.id # 0 /\ ~LastWrite.raised) =>
        /\ ProfileText = LastWrite.updated
        /\ cm = "root" => ProfileText = LastWrite.content
        /\ cm # "root" => /\ IsPrefix(LastWrite.base, ProfileText)
                          /\ IsSuffix(LastWrite.content, ProfileText)
        /\ (/\ LastWrite.overtakenBy # << >>
            /\ ~Contains(LastWrite.base, LastWrite.overtakenBy)
            /\ ~Contains(LastWrite.content, LastWrite.overtakenBy)) =>
               ~Contains(ProfileText, LastWrite.overtakenBy)

C19_Witness ==
    /\ cm = "core"
    /\ LastWrite.id # 0 /\ ~LastWrite.raised
    /\ LastWrite.overtakenBy # << >>
    /\ LastWrite.overtakenBy # LastWrite.content
    /\ ~Contains(LastWrite.base, LastWrite.overtakenBy)
    /\ ProfileText = LastWrite.updated

(***************************************************************************)
(* More properties of the profile store (checked under SpecStore)          *)
(***************************************************************************)
\* The name create_context_file is to give the document it creates.
DocumentName(filename) ==
    IF Len(filename) > 0 /\ filename[Len(filename)] = ".md" THEN filename
    ELSE filename \o <<".md">>

\* The folder context documents are created in.
DocumentFolder == IF cm = "root" THEN << >> ELSE <<"Context", "/">>

ReadThrows(v, p) == IsTFile(v, p) /\ ~Exists(v, p)

\* getContextContent as a call: it has no try/catch, so a rejected
\* vault.read rejects the call.
ContextRead(v, act) ==
    IF \E i \in 1..Len(act) : ReadThrows(v, act[i])
    THEN [raised |-> TRUE, text |-> << >>]
    ELSE [raised |-> FALSE, text |-> GetContextContent(v, act)]

\* sendMessage's context assembly, or any other caller of getContextContent.
CallGetContextContent ==
    /\ ops < MaxOps
    /\ LET c == ContextRead(vault, activeContextFiles)
       IN Called("getContextContent",
                 [vault |-> vault, dir |-> dir, active |-> activeContextFiles,
                  raised |-> c.raised], c.text, "none")
    /\ UNCHANGED <<cm, chatVars>>

\* A document is deleted outside the plugin; the vault has not noticed yet.
DeletedOutside(p) ==
    /\ vault[p].exists /\ vault[p].indexed
    /\ vault' = [vault EXCEPT ![p].exists = FALSE]
    /\ last' = [last EXCEPT !.op = "none", !.streak = 0]
    /\ UNCHANGED <<cm, dir, activeContextFiles, ops, writes, chatVars>>

\* The vault notices that a document is gone.
VaultForgets(p) ==
    /\ ~vault[p].exists /\ vault[p].indexed
    /\ vault' = [vault EXCEPT ![p] = NoFile]
    /\ last' = [last EXCEPT !.op = "none", !.streak = 0]
    /\ UNCHANGED <<cm, dir, activeContextFiles, ops, writes, chatVars>>

NextContext ==
    \/ CallGetContextContent
    \/ \E n \in FileNames, c \in UpdateContents, f \in {"none", "create"} :
          CallCreateNewContextFile(n, c, f)
    \/ \E p \in AllPaths(cm) : AddToContext(p)
    \/ \E p \in AllPaths(cm) : RemoveFromContext(p)
    \/ \E p \in AllPaths(cm) : DeletedOutside(p)
    \/ \E p \in AllPaths(cm) : VaultForgets(p)
    \/ \E p \in AllPaths(cm) : VaultIndexes(p)

SpecContext == InitLoaded /\ [][NextContext]_vars

\* The documents of the set that can be read, in insertion order.
Readable(v, act) == SelectSeq(act, LAMBDA p : IsTFile(v, p) /\ Exists(v, p))

\* C21: getContextContent never raises because a document of the set is
\* missing or cannot be read: it returns the headings and contents of the
\* readable documents, in insertion order, and skips the others.
C21_UnreadableSkipped ==
    last.op = "getContextContent" =>
        /\ ~last.raised
        /\ last.arg = GetContextContent(last.pre, Readable(last.pre, activeContextFiles))

(***************************************************************************)
(* 'New chat' clicked while a call of the view is in flight (SpecReset)    *)
(***************************************************************************)
\* The click on 'new chat' while an earlier call still waits for a response:
\* startNewChat cancels nothing, the call goes on when its response comes.
NewChatWhileBusy ==
    /\ opened
    /\ nSubmitted < MaxSubmit + MaxResets
    /\ tasks # {}
    /\ Cardinality(tasks) < MaxOverlap
    /\ nSubmitted' = nSubmitted + 1
    /\ chatName' = None
    /\ Requested(NewTask("initial", START_CONVERSATION, FALSE, "start"), << >>,
                 [NewSession EXCEPT !.since = nSubmitted + 1])
    /\ UNCHANGED <<storeVars, anthropic, apiKeys, opened, nTools>>

\* A message submitted in the chat started by 'new chat'.
SubmitAfterReset(content) ==
    /\ opened
    /\ sess.since > 0
    /\ nSubmitted < MaxSubmit + MaxResets + 1
    /\ Cardinality(tasks) < MaxInFlight
    /\ Submitted(content, FALSE)

NextReset ==
    \/ Next
    \/ NewChat
    \/ NewChatWhileBusy
    \/ \E content \in UserTexts : SubmitAfterReset(content)

SpecReset == Init /\ [][NextReset]_vars

\* A call made before the last 'new chat' moves on in this step.
StaleCallActs == \E t \in tasks : t.id < sess.since /\ t \notin tasks'

\* C29: after 'new chat' the session and the transcript hold only turns
\* produced after the reset: a call that was in flight when the chat was
\* reset adds nothing to the new messages or to the new conversationHistory.
C29_ResetDiscardsInFlight ==
    [][StaleCallActs =>
          /\ messages' = messages
          /\ conversationHistory' = conversationHistory]_vars

\* A step in which a call of generateChatName is made for a submitted message.
TitleRequested == \E t \in tasks' \ tasks : t.pc = "title" /\ ~t.tools /\ t.reqs = 0

\* A step in which a user turn is appended to the session.
UserTurnAppended == UserTurns(messages') = UserTurns(messages) + 1

\* C22: with a client, the chat title is requested (without tools, before
\* the completion request) exactly when the first user turn of a session is
\* appended, not for later turns; when the title request settles, with a
\* title or with the fallback 'Untitled Chat', the submission goes on to
\* its completion request.
C22_TitleOnFirstTurn ==
    [][/\ (anthropic /\ UserTurnAppended) =>
              (TitleRequested <=> UserTurns(messages) = 0)
       /\ \A t \in tasks :
             (t.pc = "title" /\ t \notin tasks') =>
                 /\ chatName' \in {UntitledChat}
                                  \cup {SanitizedName(Trim(x)) : x \in TitleTexts}
                 /\ \E u \in tasks' : u.id = t.id /\ u.pc = "req1" /\ u.tools]_vars

(***************************************************************************)
(* generateConversationMarkdown (SpecMarkdown)                             *)
(***************************************************************************)
\* Turn texts of the sessions the document is generated from; the user's
\* text is trimmed and not empty, a reply may be empty or hold empty lines.
UserLines == { <<"A">>, <<"A", NL, "B">> }
ReplyLines == { <<"B">>, <<"B", NL, NL, "A">>, << >> }
SessionTurns == {User(c) : c \in UserLines} \cup {Assistant(c) : c \in ReplyLines}
Sessions == UNION {[1..n -> SessionTurns] : n \in 0..MaxTurns}

Quote == "> "
IconOf(role) == IF role = "assistant" THEN "<blue diamond>" ELSE "<orange circle>"
LabelOf(role) == IF role = "assistant" THEN "**Tessera**" ELSE "**You**"
ChatHistory == <<"Chat History">>
Now == "<date>"
Later == "<later date>"

\* content.split('\n')
RECURSIVE SplitLines(_)
SplitLines(text) ==
    IF \A i \in 1..Len(text) : text[i] # NL THEN <<text>>
    ELSE LET i == CHOOSE k \in 1..Len(text) :
                     text[k] = NL /\ \A j \in 1..(k - 1) : text[j] # NL
         IN <<SubSeq(text, 1, i - 1)>> \o SplitLines(SubSeq(text, i + 1, Len(text)))

\* lines.join('\n')
RECURSIVE JoinLines(_)
JoinLines(lines) ==
    IF Len(lines) = 1 THEN lines[1]
    ELSE lines[1] \o <<NL>> \o JoinLines(Tail(lines))

\* A document in which only the first line of a turn is quoted.
QuotedFirstLine(text) == <<Quote>> \o text

\* msg.content.split('\n').map(line => `> ${line}`).join('\n')
QuotedLines(text) ==
    LET lines == SplitLines(text)
    IN JoinLines([i \in 1..Len(lines) |-> <<Quote>> \o lines[i]])

\* The text appended for one message.
TurnMarkdown(msg) ==
    <<IconOf(msg.role), LabelOf(msg.role), NL>> \o QuotedLines(msg.content) \o <<NL, NL>>

RECURSIVE TurnsMarkdown(_)
TurnsMarkdown(msgs) ==
    IF msgs = << >> THEN << >>
    ELSE TurnMarkdown(Head(msgs)) \o TurnsMarkdown(Tail(msgs))

\* The document for chat name `name` and messages `msgs`, generated at `date`.
ConversationMarkdown(name, date, msgs) ==
    <<"# ">> \o (IF name = None THEN ChatHistory ELSE name) \o <<NL, NL>>
        \o <<"*", date, "*", NL, NL>> \o TurnsMarkdown(msgs)

\* The content of the first user message, undefined (None) without one.
FirstUserMessage(msgs) ==
    LET users == SelectSeq(msgs, LAMBDA x : x.role = "user")
    IN IF users = << >> THEN None ELSE users[1].content

\* generateConversationMarkdown: the chat name is asked for if the chat has
\* none and a user message exists (the request succeeds with `title` or
\* fails), then the document is built from this.messages.
GenerateConversationMarkdown(ok, title) ==
    LET wantsName == chatName = None /\ Len(messages) > 0
                        /\ FirstUserMessage(messages) # None
        name == IF ~wantsName THEN chatName
                ELSE IF ok /\ anthropic THEN SanitizedName(Trim(title))
                ELSE UntitledChat
    IN /\ opened
       /\ chatName' = name
       /\ last' = [NoCall EXCEPT !.op = "generateConversationMarkdown",
                                 !.pre = chatName,
                                 !.arg = ConversationMarkdown(name, Now, messages)]
       /\ UNCHANGED <<cm, vault, dir, activeContextFiles, ops, writes, anthropic, apiKeys,
                      conversationHistory, messages, lastFailedMessage, tasks,
                      opened, nSubmitted, nTools, sess, done>>

\* An open view with a session of up to MaxTurns turns and no call in flight.
InitMarkdown ==
    /\ cm = "root"
    /\ LET r == Initialize(cm, [p \in AllPaths(cm) |-> NoFile], FALSE, << >>, "none")
       IN vault = r.vault /\ dir = r.dir /\ activeContextFiles = r.active
    /\ last = NoCall
    /\ ops = 0
    /\ writes = NoWrites
    /\ anthropic \in BOOLEAN
    /\ apiKeys = KeysAtLoad(anthropic)
    /\ conversationHistory = << >>
    /\ messages \in Sessions
    /\ chatName \in {None} \cup {SanitizedName(Trim(x)) : x \in TitleTexts}
    /\ lastFailedMessage = None
    /\ tasks = {}
    /\ opened = TRUE
    /\ nSubmitted = 0
    /\ nTools = 0
    /\ sess = NewSession
    /\ done = NoExchange

NextMarkdown == \E ok \in BOOLEAN, title \in TitleTexts : GenerateConversationMarkdown(ok, title)

SpecMarkdown == InitMarkdown /\ [][NextMarkdown]_vars

\* The lines of a document.
DocumentLines(doc) == SplitLines(doc)

\* The text of the turns without line breaks, in session order.
RECURSIVE TurnWords(_)
TurnWords(msgs) ==
    IF msgs = << >> THEN << >>
    ELSE SelectSeq(Head(msgs).content, LAMBDA x : x # NL) \o TurnWords(Tail(msgs))

RECURSIVE LineCount(_)
LineCount(msgs) ==
    IF msgs = << >> THEN 0
    ELSE 1 + Len(SelectSeq(Head(msgs).content, LAMBDA x : x = NL)) + LineCount(Tail(msgs))

\* C23: the document holds the turns in session order, each as the label
\* 'You' or 'Tessera' followed by its text with every line prefixed '> ';
\* for [user 'A', assistant 'B'], 'A' comes under '**You**' before 'B' under
\* '**Tessera**'.
C23_MarkdownInSessionOrder ==
    last.op = "generateConversationMarkdown" =>
        LET doc == last.arg
            lines == DocumentLines(doc)
            labels == SelectSeq(doc, LAMBDA x : x \in {"**You**", "**Tessera**"})
            words == SelectSeq(doc, LAMBDA x : x \in {"A", "B"})
        IN /\ Len(labels) = Len(messages)
           /\ \A i \in 1..Len(messages) :
                 labels[i] = IF messages[i].role = "user" THEN "**You**" ELSE "**Tessera**"
           /\ words = TurnWords(messages)
           /\ Len(SelectSeq(lines, LAMBDA l : l # << >> /\ l[1] = Quote))
                 = LineCount(messages)
           /\ \A k \in 5..Len(lines) :
                 \/ lines[k] = << >>
                 \/ lines[k][1] = Quote
                 \/ /\ Len(lines[k]) = 2
                    /\ lines[k][2] \in {"**You**", "**Tessera**"}
           /\ messages = <<User(<<"A">>), Assistant(<<"B">>)>> =>
                 SubSeq(doc, Len(doc) - 13, Len(doc)) =
                     <<"<orange circle>", "**You**", NL, "> ", "A", NL, NL,
                       "<blue diamond>", "**Tessera**", NL, "> ", "B", NL, NL>>

C23_Witness ==
    /\ last.op = "generateConversationMarkdown"
    /\ messages = <<User(<<"A", NL, "B">>), Assistant(<<"B">>)>>
    /\ Len(SelectSeq(last.arg, LAMBDA x : x = Quote)) = 3
    /\ last.pre = None
    /\ chatName = UntitledChat

(***************************************************************************)
(* The API key in the settings tab (SpecSettings)                          *)
(***************************************************************************)
\* Keys the user types in the API key field.
TypedKeys == { <<"k1">>, <<"k2">> }

\* The text field's onChange: the typed key is kept in tempApiKey.
TypeApiKey(k) ==
    /\ apiKeys.tempApiKey # k
    /\ apiKeys' = [apiKeys EXCEPT !.tempApiKey = k]
    /\ UNCHANGED <<storeVars, anthropic, conversationHistory, messages, chatName,
                   lastFailedMessage, tasks, opened, nSubmitted, nTools, sess, done>>

\* The Save button: testApiKey(this.tempApiKey, model) sends its trial
\* request with the key the field holds at the click.
ClickSave ==
    /\ apiKeys.nTrials < MaxTrials
    /\ apiKeys' = [apiKeys EXCEPT
                      !.nTrials = @ + 1,
                      !.trials = @ \cup {[id |-> apiKeys.nTrials + 1,
                                          key |-> apiKeys.tempApiKey]}]
    /\ UNCHANGED <<storeVars, anthropic, conversationHistory, messages, chatName,
                   lastFailedMessage, tasks, opened, nSubmitted, nTools, sess, done>>

\* The key the Save handler stores once testApiKey has resolved.
SavedAfterTrial(t) == apiKeys.tempApiKey

\* The trial request of t succeeds (a request without a key never does):
\* testApiKey creates the client from the tested key, the handler assigns
\* settings.apiKey and saves the settings.
TrialSucceeds(t) ==
    /\ t \in apiKeys.trials
    /\ t.key # None
    /\ anthropic' = TRUE
    /\ apiKeys' = [apiKeys EXCEPT !.trials = @ \ {t},
                                  !.client = t.key,
                                  !.apiKey = SavedAfterTrial(t),
                                  !.verified = @ \cup {t.key}]
    /\ UNCHANGED <<storeVars, conversationHistory, messages, chatName,
                   lastFailedMessage, tasks, opened, nSubmitted, nTools, sess, done>>

\* The trial request of t fails: testApiKey rethrows, the handler shows a
\* notice.
TrialFails(t) ==
    /\ t \in apiKeys.trials
    /\ apiKeys' = [apiKeys EXCEPT !.trials = @ \ {t}]
    /\ UNCHANGED <<storeVars, anthropic, conversationHistory, messages, chatName,
                   lastFailedMessage, tasks, opened, nSubmitted, nTools, sess, done>>

NextSettings ==
    \/ \E k \in TypedKeys : TypeApiKey(k)
    \/ ClickSave
    \/ \E t \in apiKeys.trials : TrialSucceeds(t)
    \/ \E t \in apiKeys.trials : TrialFails(t)

SpecSettings == Init /\ [][NextSettings]_vars

\* C24: a key is stored in settings.apiKey only after a trial request made
\* with that key has succeeded, and a failed trial request leaves the stored
\* key and the client unchanged.
C24_KeySavedAfterTrial ==
    [][/\ apiKeys'.apiKey # apiKeys.apiKey => apiKeys'.apiKey \in apiKeys'.verified
       /\ \A t \in apiKeys.trials :
             (t \notin apiKeys'.trials /\ t.key \notin apiKeys'.verified) =>
                 /\ apiKeys'.apiKey = apiKeys.apiKey
                 /\ apiKeys'.client = apiKeys.client
                 /\ anthropic' = anthropic]_vars

(***************************************************************************)
(* The requests of sendMessage and the transcript                          *)
(***************************************************************************)
\* C25: the tool result of a follow-up request is marked is_error exactly
\* when applying the tool failed; a tool that was applied is never reported
\* as failed.
C25_ErrorFlagMatchesTool ==
    \A t \in tasks : t.pc = "req2" => (t.isError <=> t.toolFailed)

\* The call of task t settles in this step.
CallSettles(t) == t \in tasks /\ \A u \in tasks' : u.id # t.id

\* The call of task u sends its first request in this step.
CallRequests(u) ==
    /\ u \in tasks' /\ u.pc = "req1"
    /\ \A t \in tasks : t.id = u.id => t.pc # "req1"

\* C26: every reply text that sendMessage returns, from the first request
\* or from the follow-up request after a tool, is the last turn of
\* conversationHistory when it is returned.
C26_ReplyInTranscript ==
    [][\A t \in tasks :
          (CallSettles(t) /\ done'.outcome = "resolved"
              /\ done'.rendered \notin {ReceivedNonText, FailedToStart}) =>
                 /\ conversationHistory' # << >>
                 /\ conversationHistory'[Len(conversationHistory')]
                        = Assistant(done'.rendered)]_vars

\* C27: the transcript sent with the first request of every call starts
\* with a user turn and alternates user and assistant turns.
C27_TranscriptAlternates ==
    [][\A u \in tasks' : CallRequests(u) => Alternates(conversationHistory')]_vars

(***************************************************************************)
(* A typed message equal to the start marker (SpecTyped)                   *)
(***************************************************************************)
\* The user types the text START_CONVERSATION and submits it.
SubmitMarker ==
    /\ opened
    /\ nSubmitted < MaxSubmit + 1
    /\ Cardinality(tasks) < MaxInFlight
    /\ Submitted(START_CONVERSATION, FALSE)

NextTyped ==
    \/ Next
    \/ SubmitMarker

SpecTyped == Init /\ [][NextTyped]_vars

\* C28: without 'new chat', conversationHistory only grows by append, and a
\* submitted message is appended to it as typed, whatever its text.
C28_TypedMessageAppended ==
    [][/\ IsPrefix(conversationHistory, conversationHistory')
       /\ \A u \in tasks' :
             (CallRequests(u) /\ u.kind = "send") =>
                 conversationHistory' = Append(conversationHistory, User(u.content))]_vars

(***************************************************************************)
(* saveConversation (SpecSave)                                             *)
(***************************************************************************)
SavedChats == <<"Saved Chats">>
Today == "<yyyy-mm-dd>"
datePath == SavedChats \o <<"/", Today>>
Numerals == <<"1", "2", "3", "4", "5", "6">>

\* `${datePath}/${name}.md`, or `${datePath}/${name} (${counter}).md` for
\* counter k > 0.
SavedPath(name, k) ==
    datePath \o <<"/">> \o name
        \o (IF k = 0 THEN << >> ELSE <<" (", Numerals[k], ")">>) \o <<MdExt>>

\* this.chatName || 'Untitled Chat'
NameOrUntitled(name) == IF name = None THEN UntitledChat ELSE name

ChatNames == {UntitledChat} \cup {SanitizedName(Trim(x)) : x \in TitleTexts}
SavedFolders == {SavedChats, datePath}
SavedPaths == {SavedPath(n, k) : n \in ChatNames, k \in 0..MaxSuffix}
Folder == [exists |-> TRUE, indexed |-> TRUE, data |-> << >>]
OldDocument == [exists |-> TRUE, indexed |-> TRUE, data |-> <<"old">>]

\* The counter of the first path of the chat name that adapter.exists
\* reports free (0: no suffix), as the while loop finds it.
FirstFree(v, name) ==
    CHOOSE k \in 0..MaxSuffix :
        /\ ~Exists(v, SavedPath(name, k))
        /\ \A j \in 0..(k - 1) : Exists(v, SavedPath(name, j))

\* vault.create that writes the file whether or not the path is taken.
VaultCreateOverwrites(v, p, data, f) == [vault |-> Created(v, p, data), raised |-> FALSE]

\* vault.create(path, data): throws when the path is taken (or the write
\* fails), otherwise the file is written and indexed.
VaultCreate(v, p, data, f) ==
    IF Exists(v, p) \/ IsTFile(v, p) \/ f = "create"
    THEN [vault |-> v, raised |-> TRUE]
    ELSE [vault |-> Created(v, p, data), raised |-> FALSE]

\* The Save button, up to the end of the while loop: nothing with an empty
\* session; otherwise the folders are created if absent and the first free
\* path of the chat name is chosen.
SaveClicked(f) ==
    /\ opened
    /\ ops < MaxSaves
    /\ ops' = ops + 1
    /\ IF messages = << >>
       THEN /\ last' = [NoCall EXCEPT !.op = "saveConversation", !.pre = vault]
            /\ UNCHANGED <<vault, tasks>>
       ELSE IF f = "mkdir" /\ \E d \in SavedFolders : ~Exists(vault, d)
       THEN /\ last' = [NoCall EXCEPT !.op = "saveConversation", !.pre = vault,
                                      !.raised = TRUE, !.fault = f]
            /\ UNCHANGED <<vault, tasks>>
       ELSE LET name == NameOrUntitled(chatName)
                v1 == [p \in DOMAIN vault |->
                          IF p \in SavedFolders THEN Folder ELSE vault[p]]
            IN /\ \E k \in 0..MaxSuffix : ~Exists(vault, SavedPath(name, k))
               /\ vault' = v1
               /\ tasks' = tasks \cup
                     {[id |-> ops + 1, kind |-> "save", name |-> name,
                       path |-> SavedPath(name, FirstFree(vault, name))]}
               /\ UNCHANGED last
    /\ UNCHANGED <<cm, dir, activeContextFiles, writes, anthropic, apiKeys,
                   conversationHistory, messages, chatName, lastFailedMessage,
                   opened, nSubmitted, nTools, sess, done>>

\* saveConversation after the loop: the document is generated (the chat may
\* get its name here) and vault.create is called for the chosen path; a
\* failure is caught and shown as a notice.
SaveCreated(t, ok, title, date, f) ==
    LET wantsName == chatName = None /\ FirstUserMessage(messages) # None
        name == IF ~wantsName THEN chatName
                ELSE IF ok /\ anthropic THEN SanitizedName(Trim(title))
                ELSE UntitledChat
        r == VaultCreate(vault, t.path, ConversationMarkdown(name, date, messages), f)
    IN /\ t \in tasks /\ t.kind = "save"
       /\ chatName' = name
       /\ vault' = r.vault
       /\ tasks' = tasks \ {t}
       /\ last' = [NoCall EXCEPT !.op = "saveConversation", !.pre = vault,
                                 !.arg = t.path, !.name = t.name,
                                 !.raised = r.raised, !.fault = f]
       /\ UNCHANGED <<cm, dir, activeContextFiles, ops, writes, anthropic, apiKeys,
                      conversationHistory, messages, lastFailedMessage,
                      opened, nSubmitted, nTools, sess, done>>

\* An open view with a session, and a vault that holds documents saved
\* earlier today under the names a chat can have.
InitSave ==
    /\ cm = "root"
    /\ \E taken \in SUBSET SavedPaths,
          folders \in SUBSET SavedFolders :
          LET r == Initialize(cm, [p \in AllPaths(cm) |-> NoFile], FALSE, << >>, "none")
          IN /\ (taken # {} => folders = SavedFolders)
             /\ (datePath \in folders => SavedChats \in folders)
             /\ \A n \in ChatNames : SavedPath(n, MaxSuffix) \notin taken
             /\ vault = [p \in AllPaths(cm) \cup SavedFolders \cup SavedPaths |->
                           IF p \in AllPaths(cm) THEN r.vault[p]
                           ELSE IF p \in folders THEN Folder
                           ELSE IF p \in taken THEN OldDocument
                           ELSE NoFile]
             /\ dir = r.dir
             /\ activeContextFiles = r.active
    /\ last = NoCall
    /\ ops = 0
    /\ writes = NoWrites
    /\ anthropic \in BOOLEAN
    /\ apiKeys = KeysAtLoad(anthropic)
    /\ conversationHistory = << >>
    /\ messages \in {<< >>, <<Assistant(<<"B">>)>>, <<User(<<"A">>), Assistant(<<"B">>)>>}
    /\ chatName \in {None} \cup {SanitizedName(Trim(x)) : x \in TitleTexts}
    /\ (chatName # None => UserTurns(messages) > 0)
    /\ lastFailedMessage = None
    /\ tasks = {}
    /\ opened = TRUE
    /\ nSubmitted = 0
    /\ nTools = 0
    /\ sess = NewSession
    /\ done = NoExchange

NextSave ==
    \/ \E f \in {"none", "mkdir"} : SaveClicked(f)
    \/ \E t \in tasks, ok \in BOOLEAN, title \in TitleTexts, date \in {Now, Later},
             f \in {"none", "create"} :
          SaveCreated(t, ok, title, date, f)

SpecSave == InitSave /\ [][NextSave]_vars

====
